---- MODULE Spec2Model ----
(***************************************************************************)
(* Progress store and task coordinator of the property scraper             *)
(* (src/property_scraper.py, src/github_storage.py).                       *)
(*                                                                         *)
(* Python values are modelled as follows.                                  *)
(*   dict            a function whose DOMAIN is the set of keys present    *)
(*   list            a sequence                                            *)
(*   str             a sequence of tokens; "_" is a token of its own, so   *)
(*                   that joining with "_" is real concatenation           *)
(*   None / a value  <<>> / <<v>>                                          *)
(*   datetime        minutes, an integer                                   *)
(* json.dump followed by json.load returns these values unchanged (str     *)
(* keys, lists, ints, str and None only), so a file holds the dict itself. *)
(* cloud_storage_type is fixed to its default 's3' (line 74).              *)
(***************************************************************************)
EXTENDS Integers, Sequences, FiniteSets, TLC

VARIABLES
    mLocal,       \* merge_progress_files: argument local_progress
    mRemote,      \* merge_progress_files: argument remote_progress
    mOut,         \* <<>> before the call, <<returned dict>> after it
    mRemoteAfter, \* the remote argument as the call left it
    mOut2,        \* <<>>, or <<merge of the result with the same remote>>
    sProgress,    \* _find_available_task: self.progress
    sVm,          \* self.vm_id
    sCloud,       \* self.use_cloud_storage
    sNow,         \* datetime.now()
    sFound,       \* <<>> before the call, <<result>> after it
    rRecord,      \* save then load: self.progress as handed to _save_progress
    rVm,          \* self.vm_id
    rNow,         \* datetime.now()
    rFile,        \* progress.json: <<>> (no file) or <<dict>>
    rLoaded,      \* <<>> before the calls, <<what _load_progress returned>>
    kTaskA,       \* task keys: a five-tuple, as a dict
    kTaskB,       \* another five-tuple
    kOut,         \* <<>> before the comparison, <<its results>> after it
    browser,      \* the machines' browser: "none" (_setup_driver returns
                  \* None), "ok", or "flaky" (its calls may fail)
    failing_task, \* <<>>: a captcha may fail on any task; <<t>>: the run
                  \* looked at is one where it fails on t and on t only
    use_cloud_storage, \* config: remote mirroring to S3 is on
    s3,           \* the S3 object: <<>> (no such key) or <<dict>>
    s3_up,        \* S3 answers; when FALSE every S3 call raises
    now,          \* the wall clock, in minutes
    local_file,   \* per machine: progress.json, <<>> (no file) or <<dict>>
    pc,           \* per machine: where its scraper process is
    ret,          \* per machine: where _save_progress returns to
    starts,       \* per machine: processes started so far
    vm_id,        \* per process: self.vm_id
    progress,     \* per process: self.progress
    daily_requests,  \* per process: self.daily_requests
    processed_count, \* per process: run_demo_mode's processed_count
    attempts,     \* per process: run_demo_mode's attempts
    found,        \* per process: what _find_available_task last returned
    task,         \* per process: year, district, taluka, village, doc_number
    retried,      \* per process: the second call of process_combination_demo
    merged_progress, \* per process: _save_progress_to_s3's merged_progress
    load_outcome  \* per process: how the S3 read of __init__'s _load_progress ended

mvars == <<mLocal, mRemote, mOut, mRemoteAfter, mOut2>>
svars == <<sProgress, sVm, sCloud, sNow, sFound>>
rvars == <<rRecord, rVm, rNow, rFile, rLoaded>>
kvars == <<kTaskA, kTaskB, kOut>>
envvars == <<browser, failing_task, use_cloud_storage, s3, s3_up, now>>
wvars == <<local_file, pc, ret, starts, vm_id, progress, daily_requests,
           processed_count, attempts, found, task, retried, merged_progress,
           load_outcome>>
vars == <<mvars, svars, rvars, kvars, envvars, wvars>>

----------------------------------------------------------------------------
(* Bounds *)

\* the year, taluka and village lists are cut to their first MaxOpt entries
MaxOpt == 1
\* the district list is cut to its first MaxDistricts entries
MaxDistricts == 2
\* document numbers tried are 0 .. MaxDoc-1 (the code tries range(10))
MaxDoc == 2
\* longest `completed` list drawn as an input
MaxLen == 2

----------------------------------------------------------------------------
(* Python helpers *)

None == <<>>
Some(v) == <<v>>
EmptyDict == <<>>

Put(d, k, v) == [x \in (DOMAIN d) \cup {k} |-> IF x = k THEN v ELSE d[x]]

Has(d, k) == k \in DOMAIN d

Range(s) == {s[i] : i \in 1..Len(s)}

NoDup(s) == \A i, j \in 1..Len(s) : s[i] = s[j] => i = j

Take(s, n) == SubSeq(s, 1, IF n < Len(s) THEN n ELSE Len(s))

RECURSIVE SeqsNoDup(_, _)
\* the duplicate-free sequences over S of length at most n
SeqsNoDup(S, n) ==
    IF n = 0 THEN {<<>>}
    ELSE LET shorter == SeqsNoDup(S, n - 1)
         IN  shorter \cup
             {s \in {Append(t, x) : t \in shorter, x \in S} : NoDup(s)}

\* every dict with keys among K (any subset) and values in V
Dicts(K, V) == UNION {[D -> V] : D \in SUBSET K}

----------------------------------------------------------------------------
(* Task keys *)

\* str(x) inside an f-string: a str is itself, None is 'None', an int its digits
StrOf(opt) == IF opt = None THEN <<"None">> ELSE opt[1]
StrOfInt(opt) == IF opt = None THEN <<"None">> ELSE <<ToString(opt[1])>>

\* mutant of KeyOfDict: the document number is left out of the key
KeyWithoutDocNumber(c) ==
    StrOf(c.year) \o <<"_">> \o StrOf(c.district) \o <<"_">> \o StrOf(c.taluka)
        \o <<"_">> \o StrOf(c.village)

\* f"{year}_{district}_{taluka}_{village}_{doc_number}" of a `current`-shaped dict
KeyOfDict(c) ==
    StrOf(c.year) \o <<"_">> \o StrOf(c.district) \o <<"_">> \o StrOf(c.taluka)
        \o <<"_">> \o StrOf(c.village) \o <<"_">> \o StrOfInt(c.doc_number)

\* the dict the code builds from a five-tuple
TaskDict(year, district, taluka, village, doc_number) ==
    [year |-> Some(year), district |-> Some(district), taluka |-> Some(taluka),
     village |-> Some(village), doc_number |-> Some(doc_number)]

combination_key(year, district, taluka, village, doc_number) ==
    KeyOfDict(TaskDict(year, district, taluka, village, doc_number))

NoCurrent ==
    [year |-> None, district |-> None, taluka |-> None, village |-> None,
     doc_number |-> None]

FreshProgress ==
    [last_run |-> None, completed |-> <<>>, current |-> NoCurrent,
     vm_tasks |-> EmptyDict]

----------------------------------------------------------------------------
(* GitHubStorage.merge_progress_files *)

RECURSIVE AppendAll(_, _)
\* mutant of AppendMissing: the membership test is dropped
AppendAll(list, items) ==
    IF items = <<>> THEN list
    ELSE AppendAll(Append(list, Head(items)), Tail(items))

RECURSIVE AppendMissing(_, _)
\* for task in items: if task not in list: list.append(task)
AppendMissing(list, items) ==
    IF items = <<>> THEN list
    ELSE AppendMissing(IF Head(items) \in Range(list) THEN list
                       ELSE Append(list, Head(items)),
                       Tail(items))

RECURSIVE Overlay(_, _, _)
\* for k, v in src.items(): dst[k] = v   (keys: DOMAIN src still to copy)
Overlay(dst, src, keys) ==
    IF keys = {} THEN dst
    ELSE LET k == CHOOSE x \in keys : TRUE
         IN  Overlay(Put(dst, k, src[k]), src, keys \ {k})

MergeCompleted(local_progress, merged) ==
    IF Has(local_progress, "completed")
    THEN Put(merged, "completed",
             AppendMissing(IF Has(merged, "completed")
                           THEN merged["completed"] ELSE <<>>,
                           local_progress["completed"]))
    ELSE merged

\* mutant of MergeVmTasks: an entry the remote already has is kept
KeepRemoteVmTasks(local_progress, merged) ==
    IF Has(local_progress, "vm_tasks")
    THEN Put(merged, "vm_tasks",
             IF Has(merged, "vm_tasks")
             THEN Overlay(local_progress["vm_tasks"], merged["vm_tasks"],
                          DOMAIN merged["vm_tasks"])
             ELSE local_progress["vm_tasks"])
    ELSE merged

MergeVmTasks(local_progress, merged) ==
    IF Has(local_progress, "vm_tasks")
    THEN Put(merged, "vm_tasks",
             Overlay(IF Has(merged, "vm_tasks")
                     THEN merged["vm_tasks"] ELSE EmptyDict,
                     local_progress["vm_tasks"],
                     DOMAIN local_progress["vm_tasks"]))
    ELSE merged

\* the returned dict
merge_progress_files(local_progress, remote_progress) ==
    IF remote_progress = EmptyDict THEN local_progress
    ELSE MergeVmTasks(local_progress,
                      MergeCompleted(local_progress, remote_progress))

\* remote_progress after the call: merged is remote_progress.copy(), a
\* shallow copy, so a list or dict that remote_progress already held is the one
\* the loops append to; a key the copy gained is not added to remote_progress
RemoteAfterMerge(local_progress, remote_progress) ==
    LET merged == merge_progress_files(local_progress, remote_progress)
    IN  IF remote_progress = EmptyDict THEN remote_progress
        ELSE [k \in DOMAIN remote_progress |->
                 IF k \in {"completed", "vm_tasks"} THEN merged[k]
                 ELSE remote_progress[k]]

----------------------------------------------------------------------------
(* Dropdown options (driver is None: _get_dropdown_options returns the demo lists) *)

DemoYears == <<<<"2025">>, <<"2024">>, <<"2023">>, <<"2022">>>>
DemoDistricts == <<<<"Mumbai">>, <<"Pune">>, <<"Nagpur">>, <<"Thane">>>>
DemoTalukasAll ==
    <<<<"Mumbai City">>, <<"Mumbai Suburban">>, <<"Pune City">>, <<"Haveli">>,
      <<"Nagpur Urban">>, <<"Nagpur Rural">>, <<"Thane">>, <<"Kalyan">>>>
DemoVillagesAll ==
    <<<<"Colaba">>, <<"Fort">>, <<"Andheri">>, <<"Bandra">>, <<"Shivajinagar">>,
      <<"Kothrud">>, <<"Hadapsar">>, <<"Wagholi">>, <<"Dharampeth">>, <<"Sadar">>,
      <<"Hingna">>, <<"Wadi">>, <<"Naupada">>, <<"Majiwada">>, <<"Kalyan East">>,
      <<"Kalyan West">>>>

DemoTalukasOf(district) ==
    CASE district = <<"Mumbai">> -> <<<<"Mumbai City">>, <<"Mumbai Suburban">>>>
      [] district = <<"Pune">>   -> <<<<"Pune City">>, <<"Haveli">>>>
      [] district = <<"Nagpur">> -> <<<<"Nagpur Urban">>, <<"Nagpur Rural">>>>
      [] district = <<"Thane">>  -> <<<<"Thane">>, <<"Kalyan">>>>
      [] OTHER -> DemoTalukasAll

DemoVillagesOf(taluka) ==
    CASE taluka = <<"Mumbai City">>     -> <<<<"Colaba">>, <<"Fort">>>>
      [] taluka = <<"Mumbai Suburban">> -> <<<<"Andheri">>, <<"Bandra">>>>
      [] taluka = <<"Pune City">>       -> <<<<"Shivajinagar">>, <<"Kothrud">>>>
      [] taluka = <<"Haveli">>          -> <<<<"Hadapsar">>, <<"Wagholi">>>>
      [] taluka = <<"Nagpur Urban">>    -> <<<<"Dharampeth">>, <<"Sadar">>>>
      [] taluka = <<"Nagpur Rural">>    -> <<<<"Hingna">>, <<"Wadi">>>>
      [] taluka = <<"Thane">>           -> <<<<"Naupada">>, <<"Majiwada">>>>
      [] taluka = <<"Kalyan">>          -> <<<<"Kalyan East">>, <<"Kalyan West">>>>
      [] OTHER -> DemoVillagesAll

\* the lists are cut to MaxOpt or MaxDistricts entries; the taluka and village lists follow
\* progress['current'], not the district or taluka of the enclosing loop
_get_demo_dropdown_options(prog, dropdown_id) ==
    Take(CASE dropdown_id = "year" -> DemoYears
           [] dropdown_id = "district" -> DemoDistricts
           [] dropdown_id = "taluka" ->
                IF prog["current"].district \notin {None, Some(<<>>)}
                THEN DemoTalukasOf(prog["current"].district[1])
                ELSE DemoTalukasAll
           [] dropdown_id = "village" ->
                IF prog["current"].taluka \notin {None, Some(<<>>)}
                THEN DemoVillagesOf(prog["current"].taluka[1])
                ELSE DemoVillagesAll
           [] OTHER -> <<>>,
         IF dropdown_id = "district" THEN MaxDistricts ELSE MaxOpt)

\* range(10), cut to MaxDoc
RangeDocs == 10
DocCount == IF MaxDoc < RangeDocs THEN MaxDoc ELSE RangeDocs

----------------------------------------------------------------------------
(* Task selection *)

\* timedelta(minutes=30)
vm_timeout == 30

\* mutant of _is_task_in_progress_by_other_vm: a lease exactly vm_timeout old
\* counts as stale
InProgressStrictlyYounger(prog, self_vm_id, cloud, current_time, key) ==
    /\ cloud
    /\ Has(prog, "vm_tasks")
    /\ \E v \in DOMAIN prog["vm_tasks"] :
          /\ v # self_vm_id
          /\ current_time - prog["vm_tasks"][v].last_active < vm_timeout
          /\ KeyOfDict(prog["vm_tasks"][v].current_task) = key

\* mutant of _is_task_in_progress_by_other_vm: last_active is not looked at
InProgressIgnoringAge(prog, self_vm_id, cloud, current_time, key) ==
    /\ cloud
    /\ Has(prog, "vm_tasks")
    /\ \E v \in DOMAIN prog["vm_tasks"] :
          /\ v # self_vm_id
          /\ KeyOfDict(prog["vm_tasks"][v].current_task) = key

\* a lease whose vm is not this one, whose last_active is not more than
\* vm_timeout ago and whose current_task joins to combination_key.
\* last_active is always a timestamp the program wrote, so the ValueError and
\* KeyError branches (lines 1440-1442, 1452-1454) are not taken.
_is_task_in_progress_by_other_vm(prog, self_vm_id, cloud, current_time, key) ==
    IF ~cloud THEN FALSE
    ELSE IF ~Has(prog, "vm_tasks") THEN FALSE
    ELSE \E v \in DOMAIN prog["vm_tasks"] :
            /\ v # self_vm_id
            /\ ~(current_time - prog["vm_tasks"][v].last_active > vm_timeout)
            /\ KeyOfDict(prog["vm_tasks"][v].current_task) = key

\* mutant of CurrentIsSet: the resume check is never entered
CurrentNeverSet(c) == FALSE

CurrentIsSet(c) ==
    /\ c.year # None
    /\ c.district # None
    /\ c.taluka # None
    /\ c.village # None
    /\ c.doc_number # None

\* mutant of IsFree: the completed list is not looked at
IsFreeIgnoringCompleted(prog, self_vm_id, cloud, current_time, key) ==
    ~_is_task_in_progress_by_other_vm(prog, self_vm_id, cloud, current_time, key)

\* the two tests of lines 1468-1469 and of lines 1503-1504
IsFree(prog, self_vm_id, cloud, current_time, key) ==
    /\ key \notin Range(prog["completed"])
    /\ ~_is_task_in_progress_by_other_vm(prog, self_vm_id, cloud, current_time, key)

\* the combinations in the order of the five nested loops (lines 1491-1498)
Combos(prog) ==
    LET Y == _get_demo_dropdown_options(prog, "year")
        D == _get_demo_dropdown_options(prog, "district")
        T == _get_demo_dropdown_options(prog, "taluka")
        V == _get_demo_dropdown_options(prog, "village")
        n == Len(Y) * Len(D) * Len(T) * Len(V) * DocCount
    IN  [i \in 1..n |->
            LET j == i - 1
            IN  TaskDict(Y[(j \div (DocCount * Len(V) * Len(T) * Len(D))) + 1],
                         D[((j \div (DocCount * Len(V) * Len(T))) % Len(D)) + 1],
                         T[((j \div (DocCount * Len(V))) % Len(T)) + 1],
                         V[((j \div DocCount) % Len(V)) + 1],
                         j % DocCount)]

\* the result: task is <<>> (None) or <<the tuple, as a dict>>; path says which
\* return statement gave it; asked says whether a dropdown list was requested
_find_available_task(prog, self_vm_id, cloud, current_time) ==
    LET c == prog["current"]
        all == Combos(prog)
        free == {i \in 1..Len(all) :
                    IsFree(prog, self_vm_id, cloud, current_time, KeyOfDict(all[i]))}
    IN  IF CurrentIsSet(c)
           /\ IsFree(prog, self_vm_id, cloud, current_time, KeyOfDict(c))
        THEN [task |-> Some(c), path |-> "resume", asked |-> FALSE]
        ELSE IF free # {}
        THEN [task |-> Some(all[CHOOSE i \in free : \A k \in free : i <= k]),
              path |-> "discover", asked |-> TRUE]
        ELSE [task |-> None, path |-> "none", asked |-> TRUE]

----------------------------------------------------------------------------
(* Inputs of the merge specification *)

InputTasks ==
    {TaskDict(<<"2025">>, <<"Mumbai">>, <<"Mumbai City">>, <<"Colaba">>, 0),
     TaskDict(<<"2025">>, <<"Mumbai">>, <<"Mumbai City">>, <<"Colaba">>, 1),
     TaskDict(<<"2024">>, <<"Pune">>, <<"Haveli">>, <<"Hadapsar">>, 3)}

InputKeys == {KeyOfDict(t) : t \in InputTasks}

InputVms == {<<"w1", 1>>, <<"w2", 1>>}

InputLeases ==
    {[last_active |-> 0, current_task |-> t] :
        t \in {TaskDict(<<"2025">>, <<"Mumbai">>, <<"Mumbai City">>, <<"Colaba">>, 0),
               NoCurrent}}

\* a progress dict as the program writes it, with 'completed' or 'vm_tasks'
\* possibly missing (a file of an older version)
InputRecords ==
    LET base == {[last_run |-> None, current |-> c] :
                    c \in {NoCurrent,
                           TaskDict(<<"2024">>, <<"Pune">>, <<"Haveli">>,
                                    <<"Hadapsar">>, 3)}}
        withC == base \cup
                 {Put(b, "completed", s) :
                     b \in base, s \in SeqsNoDup(InputKeys, MaxLen)}
    IN  withC \cup
        {Put(b, "vm_tasks", v) : b \in withC, v \in Dicts(InputVms, InputLeases)}

Workers == {"w1", "w2"}

\* no process runs, no file exists
WorkersOff ==
    /\ local_file = [w \in Workers |-> None]
    /\ pc = [w \in Workers |-> "off"]
    /\ ret = [w \in Workers |-> "off"]
    /\ starts = [w \in Workers |-> 0]
    /\ vm_id = [w \in Workers |-> <<w, 0>>]
    /\ progress = [w \in Workers |-> EmptyDict]
    /\ daily_requests = [w \in Workers |-> 0]
    /\ processed_count = [w \in Workers |-> 0]
    /\ attempts = [w \in Workers |-> 0]
    /\ found = [w \in Workers |-> None]
    /\ task = [w \in Workers |-> None]
    /\ retried = [w \in Workers |-> FALSE]
    /\ merged_progress = [w \in Workers |-> None]
    /\ load_outcome = [w \in Workers |-> "none"]

SystemIdle ==
    /\ browser = "none"
    /\ failing_task = None
    /\ use_cloud_storage = FALSE
    /\ s3 = None
    /\ s3_up = TRUE
    /\ now = 0
    /\ WorkersOff

MergeIdle ==
    /\ mLocal = EmptyDict
    /\ mRemote = EmptyDict
    /\ mOut = None
    /\ mRemoteAfter = None
    /\ mOut2 = None

RoundIdle ==
    /\ rRecord = EmptyDict
    /\ rVm = <<"w1", 1>>
    /\ rNow = 0
    /\ rFile = None
    /\ rLoaded = None

KeyIdle ==
    /\ kTaskA = NoCurrent
    /\ kTaskB = NoCurrent
    /\ kOut = None

SelectIdle ==
    /\ sProgress = EmptyDict
    /\ sVm = <<"w1", 1>>
    /\ sCloud = FALSE
    /\ sNow = 0
    /\ sFound = None

MergeInit ==
    /\ SelectIdle
    /\ RoundIdle
    /\ KeyIdle
    /\ SystemIdle
    /\ mLocal \in InputRecords
    /\ mRemote \in InputRecords \cup {EmptyDict}
    /\ mOut = None
    /\ mRemoteAfter = None
    /\ mOut2 = None

\* merged = merge_progress_files(local, remote)
MergeCall ==
    /\ mOut = None
    /\ mOut' = Some(merge_progress_files(mLocal, mRemote))
    /\ mRemoteAfter' = Some(RemoteAfterMerge(mLocal, mRemote))
    /\ UNCHANGED <<mLocal, mRemote, mOut2, svars, rvars, kvars, envvars, wvars>>

\* again = merge_progress_files(merged, remote), remote being the same object
MergeAgain ==
    /\ mOut # None
    /\ mOut2 = None
    /\ mOut2' = Some(merge_progress_files(mOut[1], mRemoteAfter[1]))
    /\ UNCHANGED <<mLocal, mRemote, mOut, mRemoteAfter, svars, rvars, kvars, envvars, wvars>>

MergeNext == MergeCall \/ MergeAgain

SpecMerge == MergeInit /\ [][MergeNext]_vars

\* progress.get('completed', [])
CompletedOf(d) == IF Has(d, "completed") THEN d["completed"] ELSE <<>>

KeyA == combination_key(<<"2025">>, <<"Mumbai">>, <<"Mumbai City">>, <<"Colaba">>, 0)
KeyB == combination_key(<<"2025">>, <<"Mumbai">>, <<"Mumbai City">>, <<"Colaba">>, 1)
KeyC == combination_key(<<"2024">>, <<"Pune">>, <<"Haveli">>, <<"Hadapsar">>, 3)

\* C2: the completed list of merge_progress_files(A, B) holds every key of
\* A.completed and of B.completed, and holds no key twice.
C2_UnionNoRepeat ==
    mOut # None =>
        /\ Range(CompletedOf(mLocal)) \cup Range(CompletedOf(mRemote))
               \subseteq Range(CompletedOf(mOut[1]))
        /\ NoDup(CompletedOf(mOut[1]))

\* remote [A, B] merged with local [B, C] gave A, B, C once each
C2_Witness ==
    /\ mOut # None
    /\ CompletedOf(mRemote) = <<KeyA, KeyB>>
    /\ CompletedOf(mLocal) = <<KeyB, KeyC>>
    /\ CompletedOf(mOut[1]) = <<KeyA, KeyB, KeyC>>

\* C3: merging the result of merge_progress_files(A, B) with the same remote B
\* again returns that result unchanged, whether B is taken as the call left it
\* or as it was handed in.
C3_MergeIdempotent ==
    mOut2 # None =>
        /\ mOut2[1] = mOut[1]
        /\ merge_progress_files(mOut[1], mRemote) = mOut[1]

\* a second merge was made where the first one had appended a local key
C3_Witness ==
    /\ mOut2 # None
    /\ mRemote # EmptyDict
    /\ Len(CompletedOf(mOut[1])) > Len(CompletedOf(mRemote))
    /\ Len(CompletedOf(mRemote)) > 0

----------------------------------------------------------------------------
(* The scraper processes: one machine per worker, one S3 object shared *)

daily_limit == 5
num_combinations == 5
max_attempts == 10

\* processes started per machine
MaxStarts == 2
\* iterations of the run loop followed per process
MaxIter == 2
\* the clock stops here
MaxNow == 31
\* the clock advances by a lease timeout, or by one minute more
TickDeltas == {vm_timeout, vm_timeout + 1}

Upd(f, w, v) == [f EXCEPT ![w] = v]

Lease(t, cur) == [last_active |-> t, current_task |-> cur]

\* mutant of WithLease: the lease is stamped but names no task
WithUnnamedLease(prog, vm, t) ==
    Put(prog, "vm_tasks",
        Put(IF Has(prog, "vm_tasks") THEN prog["vm_tasks"] ELSE EmptyDict,
            vm, Lease(t, NoCurrent)))

\* self.progress['vm_tasks'][self.vm_id] = {last_active: now, current_task: current}
WithLease(prog, vm, t) ==
    Put(prog, "vm_tasks",
        Put(IF Has(prog, "vm_tasks") THEN prog["vm_tasks"] ELSE EmptyDict,
            vm, Lease(t, prog["current"])))

\* with open(self.local_progress_file, 'w') as f: json.dump(self.progress, f)
LocalWrite(file, prog) == Some(prog)

\* get_object: the document, the empty record for NoSuchKey, or an exception
_load_progress_from_s3(up, obj) ==
    IF ~up THEN [raised |-> TRUE, outcome |-> "error", value |-> EmptyDict]
    ELSE IF obj = None
    THEN [raised |-> FALSE, outcome |-> "NoSuchKey", value |-> FreshProgress]
    ELSE [raised |-> FALSE, outcome |-> "ok", value |-> obj[1]]

_load_progress(cloud, up, obj, file) ==
    IF cloud /\ ~_load_progress_from_s3(up, obj).raised
    THEN _load_progress_from_s3(up, obj).value
    ELSE IF file # None THEN file[1]
    ELSE FreshProgress

\* mutant of MergeIntoLatest: the worker's record is uploaded as it is
OverwriteLatest(latest, prog, vm) == prog

\* _save_progress_to_s3, the fetch having succeeded: latest_progress after the
\* completed loop and the lease assignment
MergeIntoLatest(latest, prog, vm) ==
    Put(Put(latest, "completed",
            AppendMissing(latest["completed"], prog["completed"])),
        "vm_tasks",
        Put(IF Has(latest, "vm_tasks") THEN latest["vm_tasks"] ELSE EmptyDict,
            vm, prog["vm_tasks"][vm]))

\* mutant of SaveReturns: a failed upload is raised to the caller
SaveReraises(put_ok) == put_ok

\* _save_progress catches whatever _save_progress_to_s3 raises
SaveReturns(put_ok) == TRUE

\* the merge at the top of run and of run_demo_mode
StartupMerge(prog, cloud, up, obj) ==
    IF cloud /\ ~_load_progress_from_s3(up, obj).raised
    THEN LET latest == _load_progress_from_s3(up, obj).value
             withC == Put(prog, "completed",
                          AppendMissing(prog["completed"], latest["completed"]))
         IN  IF Has(latest, "vm_tasks")
             THEN Put(withC, "vm_tasks", latest["vm_tasks"])
             ELSE withC
    ELSE prog

\* the tuples _auto_select_from_dropdowns can return: each list is read after
\* progress['current'] got the choice of the level above
_auto_select_from_dropdowns(prog) ==
    LET Y == Range(_get_demo_dropdown_options(prog, "year"))
        D == Range(_get_demo_dropdown_options(prog, "district"))
        Tof(d) == Range(_get_demo_dropdown_options(
                      [prog EXCEPT !["current"].district = Some(d)], "taluka"))
        Vof(d, t) == Range(_get_demo_dropdown_options(
                         [prog EXCEPT !["current"].district = Some(d),
                                      !["current"].taluka = Some(t)], "village"))
    IN  UNION {UNION {{TaskDict(y, d, t, v, n) :
                          y \in Y, v \in Vof(d, t), n \in 0..(DocCount - 1)} :
                      t \in Tof(d)} :
               d \in D}

\* _save_progress up to the local write; the S3 part follows in S3Get and S3Put
BeginSave(w, prog, cont) ==
    LET saved == WithLease(prog, vm_id[w], now)
    IN  /\ progress' = Upd(progress, w, saved)
        /\ local_file' = Upd(local_file, w, LocalWrite(local_file[w], saved))
        /\ IF use_cloud_storage
           THEN pc' = Upd(pc, w, "s3_get") /\ ret' = Upd(ret, w, cont)
           ELSE pc' = Upd(pc, w, cont) /\ ret' = ret

\* __init__: a new vm_id, _load_progress, the counters
Start(w) ==
    /\ pc[w] \in {"off", "done"}
    /\ starts[w] < MaxStarts
    /\ starts' = Upd(starts, w, starts[w] + 1)
    /\ vm_id' = Upd(vm_id, w, <<w, starts[w] + 1>>)
    /\ progress' = Upd(progress, w,
                       _load_progress(use_cloud_storage, s3_up, s3, local_file[w]))
    /\ load_outcome' = Upd(load_outcome, w,
                           IF use_cloud_storage
                           THEN _load_progress_from_s3(s3_up, s3).outcome
                           ELSE "none")
    /\ daily_requests' = Upd(daily_requests, w, 0)
    /\ processed_count' = Upd(processed_count, w, 0)
    /\ attempts' = Upd(attempts, w, 0)
    /\ found' = Upd(found, w, None)
    /\ task' = Upd(task, w, None)
    /\ retried' = Upd(retried, w, FALSE)
    /\ merged_progress' = Upd(merged_progress, w, None)
    /\ ret' = Upd(ret, w, "off")
    /\ pc' = Upd(pc, w, "run")
    /\ UNCHANGED <<mvars, svars, rvars, kvars, envvars, local_file>>

\* run, lines 2109-2157: the merge, then _setup_driver; with no driver
\* run_demo_mode is entered, with a driver the browser loop (its counters are
\* 0 since __init__)
RunMerge(w) ==
    /\ pc[w] = "run"
    /\ progress' = Upd(progress, w,
                       StartupMerge(progress[w], use_cloud_storage, s3_up, s3))
    /\ load_outcome' = Upd(load_outcome, w, "none")
    /\ pc' = Upd(pc, w, IF browser = "none" THEN "demo" ELSE "bloop")
    /\ UNCHANGED <<mvars, svars, rvars, kvars, envvars, local_file, ret, starts, vm_id,
                   daily_requests, processed_count, attempts, found, task,
                   retried, merged_progress>>

\* run_demo_mode, lines 2007-2027
DemoMerge(w) ==
    /\ pc[w] = "demo"
    /\ progress' = Upd(progress, w,
                       StartupMerge(progress[w], use_cloud_storage, s3_up, s3))
    /\ processed_count' = Upd(processed_count, w, 0)
    /\ attempts' = Upd(attempts, w, 0)
    /\ pc' = Upd(pc, w, "loop")
    /\ UNCHANGED <<mvars, svars, rvars, kvars, envvars, local_file, ret, starts, vm_id,
                   daily_requests, found, task, retried, merged_progress, load_outcome>>

\* mutant of NextAttempt: an iteration is not counted
SameAttempt(tries) == tries

\* attempts += 1 (lines 2045, 2093; in run, lines 2172-2360 and 2403)
NextAttempt(tries) == tries + 1

\* mutant of LoopEnds: the loop goes on whatever the counters say
LoopNeverEnds(processed, tries, requests) == FALSE

\* run_demo_mode, lines 2028-2031: the while condition is false, or
\* _check_daily_limit is true and the function returns
LoopEnds(processed, tries, requests) ==
    \/ ~(processed < num_combinations /\ tries < max_attempts)
    \/ requests >= daily_limit

\* mutant of ClaimCurrent: only the year of the claimed task is recorded
ClaimYearOnly(prog, t) ==
    [prog EXCEPT !["current"] = [NoCurrent EXCEPT !.year = t.year]]

\* run_demo_mode, lines 2053-2059: self.progress['current'] = the five values
ClaimCurrent(prog, t) == [prog EXCEPT !["current"] = t]

\* run_demo_mode, lines 2028-2071: the loop test, the daily limit, the
\* selection, the claim and the local write of its save
LoopStep(w) ==
    /\ pc[w] = "loop"
    /\ IF LoopEnds(processed_count[w], attempts[w], daily_requests[w])
       THEN /\ pc' = Upd(pc, w, "done")
            /\ UNCHANGED <<progress, local_file, ret, attempts, found, task, retried>>
       ELSE LET f == _find_available_task(progress[w], vm_id[w],
                                          use_cloud_storage, now)
                reset == [progress[w] EXCEPT !["current"] = NoCurrent]
            IN  /\ found' = Upd(found, w, Some(f))
                /\ \E t \in (IF f.task # None THEN {f.task[1]}
                             ELSE _auto_select_from_dropdowns(progress[w])) :
                      IF /\ f.task = None
                         /\ \/ KeyOfDict(t) \in Range(reset["completed"])
                            \/ _is_task_in_progress_by_other_vm(
                                   reset, vm_id[w], use_cloud_storage, now, KeyOfDict(t))
                      THEN /\ attempts' = Upd(attempts, w, NextAttempt(attempts[w]))
                           /\ progress' = Upd(progress, w, reset)
                           /\ UNCHANGED <<pc, local_file, ret, task, retried>>
                      ELSE /\ task' = Upd(task, w, Some(t))
                           /\ retried' = Upd(retried, w, FALSE)
                           /\ BeginSave(w, ClaimCurrent(progress[w], t), "process")
                           /\ UNCHANGED attempts
    /\ UNCHANGED <<mvars, svars, rvars, kvars, envvars, starts, vm_id, daily_requests,
                   processed_count, merged_progress, load_outcome>>

\* process_combination_demo, lines 1887-1901
ProcessStart(w) ==
    /\ pc[w] = "process"
    /\ IF daily_requests[w] >= daily_limit
       THEN /\ pc' = Upd(pc, w, "done")
            /\ UNCHANGED <<progress, local_file, ret>>
       ELSE BeginSave(w, [progress[w] EXCEPT !["current"] = task[w][1]], "work")
    /\ UNCHANGED <<mvars, svars, rvars, kvars, envvars, starts, vm_id, daily_requests,
                   processed_count, attempts, found, task, retried,
                   merged_progress, load_outcome>>

\* _simulate_handle_captcha twice (lines 1916-1920): random.random() < 0.9
\* decides, so either outcome is possible on every task; a run in which the
\* failures fall on one task and on every attempt at it is one of them
CaptchaOutcomes(w) ==
    IF failing_task = None THEN BOOLEAN
    ELSE {task[w][1] # failing_task[1]}

\* mutant of RetryAllowed: a failed task is retried again and again
RetryAlways(second_call) == TRUE

\* run_demo_mode, lines 2076-2090: the `if not success` block calls
\* process_combination_demo once more; after that second call the iteration
\* ends whatever it returned
RetryAllowed(second_call) == ~second_call

\* process_combination_demo, lines 1916-1936, and on its failure run_demo_mode,
\* lines 2076-2093 with _reset_session
ProcessWork(w) ==
    /\ pc[w] = "work"
    /\ \E captcha_ok \in CaptchaOutcomes(w) :
          IF captcha_ok
          THEN /\ daily_requests' = Upd(daily_requests, w, daily_requests[w] + 1)
               /\ BeginSave(w, [progress[w] EXCEPT
                                   !["completed"] = Append(@, KeyOfDict(task[w][1]))],
                            "iter_end")
               /\ UNCHANGED <<attempts, retried>>
          ELSE IF ~RetryAllowed(retried[w])
          THEN /\ attempts' = Upd(attempts, w, NextAttempt(attempts[w]))
               /\ pc' = Upd(pc, w, "loop")
               /\ UNCHANGED <<progress, local_file, ret, daily_requests, retried>>
          ELSE IF daily_requests[w] >= daily_limit
          THEN /\ pc' = Upd(pc, w, "done")
               /\ UNCHANGED <<progress, local_file, ret, daily_requests, attempts,
                              retried>>
          ELSE /\ daily_requests' = Upd(daily_requests, w, 0)
               /\ retried' = Upd(retried, w, TRUE)
               /\ BeginSave(w, [progress[w] EXCEPT !["last_run"] = Some(now)],
                            "process")
               /\ UNCHANGED attempts
    /\ UNCHANGED <<mvars, svars, rvars, kvars, envvars, starts, vm_id, processed_count, found,
                   task, merged_progress, load_outcome>>

\* run_demo_mode, lines 2090-2093, after a successful attempt
IterEnd(w) ==
    /\ pc[w] = "iter_end"
    /\ processed_count' = Upd(processed_count, w, processed_count[w] + 1)
    /\ attempts' = Upd(attempts, w, NextAttempt(attempts[w]))
    /\ pc' = Upd(pc, w, "loop")
    /\ UNCHANGED <<mvars, svars, rvars, kvars, envvars, local_file, ret, starts, vm_id, progress,
                   daily_requests, found, task, retried, merged_progress, load_outcome>>

\* _save_progress_to_s3, lines 200-219: the fetch and the merge
S3Get(w) ==
    /\ pc[w] = "s3_get"
    /\ merged_progress' =
          Upd(merged_progress, w,
              Some(IF _load_progress_from_s3(s3_up, s3).raised
                   THEN progress[w]
                   ELSE MergeIntoLatest(_load_progress_from_s3(s3_up, s3).value,
                                        progress[w], vm_id[w])))
    /\ pc' = Upd(pc, w, "s3_put")
    /\ UNCHANGED <<mvars, svars, rvars, kvars, envvars, local_file, ret, starts, vm_id, progress,
                   daily_requests, processed_count, attempts, found, task,
                   retried, load_outcome>>

\* _save_progress_to_s3, lines 221-231: put_object, and the return of
\* _save_progress, lines 189-195
S3Put(w) ==
    /\ pc[w] = "s3_put"
    /\ s3' = IF s3_up THEN merged_progress[w] ELSE s3
    /\ pc' = Upd(pc, w, IF SaveReturns(s3_up) THEN ret[w] ELSE "raised")
    /\ ret' = Upd(ret, w, "off")
    /\ merged_progress' = Upd(merged_progress, w, None)
    /\ UNCHANGED <<mvars, svars, rvars, kvars, browser, failing_task, use_cloud_storage, s3_up, now, local_file, starts,
                   vm_id, progress, daily_requests, processed_count, attempts,
                   found, task, retried, load_outcome>>

\* the process is killed: its memory is gone, its files stay
Crash(w) ==
    /\ pc[w] \notin {"off", "done"}
    /\ pc' = Upd(pc, w, "off")
    /\ ret' = Upd(ret, w, "off")
    /\ progress' = Upd(progress, w, EmptyDict)
    /\ daily_requests' = Upd(daily_requests, w, 0)
    /\ processed_count' = Upd(processed_count, w, 0)
    /\ attempts' = Upd(attempts, w, 0)
    /\ found' = Upd(found, w, None)
    /\ task' = Upd(task, w, None)
    /\ retried' = Upd(retried, w, FALSE)
    /\ merged_progress' = Upd(merged_progress, w, None)
    /\ load_outcome' = Upd(load_outcome, w, "none")
    /\ UNCHANGED <<mvars, svars, rvars, kvars, envvars, local_file, starts, vm_id>>

Tick ==
    /\ \E d \in TickDeltas : now + d <= MaxNow /\ now' = now + d
    /\ UNCHANGED <<mvars, svars, rvars, kvars, browser, failing_task, use_cloud_storage, s3, s3_up, wvars>>

Outage ==
    /\ use_cloud_storage
    /\ s3_up
    /\ s3_up' = FALSE
    /\ UNCHANGED <<mvars, svars, rvars, kvars, browser, failing_task, use_cloud_storage, s3, now, wvars>>

Recover ==
    /\ ~s3_up
    /\ s3_up' = TRUE
    /\ UNCHANGED <<mvars, svars, rvars, kvars, browser, failing_task, use_cloud_storage, s3, now, wvars>>

\* the model follows a process through MaxIter iterations of its loop
Followed(w) == attempts[w] < MaxIter

WorkerStep(w) ==
    \/ Start(w)
    \/ RunMerge(w)
    \/ DemoMerge(w)
    \/ LoopStep(w)
    \/ ProcessStart(w)
    \/ ProcessWork(w)
    \/ IterEnd(w)
    \/ S3Get(w)
    \/ S3Put(w)

Init ==
    /\ MergeIdle
    /\ SelectIdle
    /\ RoundIdle
    /\ KeyIdle
    /\ WorkersOff
    /\ browser = "none"
    /\ failing_task = None
    /\ use_cloud_storage \in BOOLEAN
    /\ s3 = None
    /\ s3_up = TRUE
    /\ now = 0

\* the machine whose processes Spec follows
Solo == {"w1"}

Next ==
    \/ \E w \in Solo : Followed(w) /\ WorkerStep(w)
    \/ \E w \in Solo : Crash(w)
    \/ Tick
    \/ Outage
    \/ Recover

\* one machine, every failure: its process is killed and started again (with
\* a new vm_id each time), S3 comes and goes, mirroring is on or off
Spec == Init /\ [][Next]_vars

InitCloud ==
    /\ MergeIdle
    /\ SelectIdle
    /\ RoundIdle
    /\ KeyIdle
    /\ WorkersOff
    /\ browser = "none"
    /\ failing_task = None
    /\ use_cloud_storage = TRUE
    /\ s3 = None
    /\ s3_up = TRUE
    /\ now = 0

NextConc ==
    \E w \in Workers : Followed(w) /\ WorkerStep(w)

\* remote mirroring on, every S3 call succeeds, no process is killed, the
\* workers run within one lease timeout
SpecConc == InitCloud /\ [][NextConc]_vars

Saving(w) == pc[w] \in {"s3_get", "s3_put"}

NextSeq ==
    \/ \E w \in Workers :
          /\ \A o \in Workers \ {w} : ~Saving(o)
          /\ Followed(w)
          /\ WorkerStep(w)
    \/ Tick

\* as SpecConc, and no worker takes a step while another one's save is between
\* its local write and its upload: saves follow one another
SpecSeq == InitCloud /\ [][NextSeq]_vars

----------------------------------------------------------------------------
(* Claims about the running processes *)

RemoteCompleted == IF s3 = None THEN {} ELSE Range(CompletedOf(s3[1]))

LocalCompleted(w) ==
    IF local_file[w] = None THEN {} ELSE Range(CompletedOf(local_file[w][1]))

\* what a load issued now by worker w returns, S3 answering
FinalLoad(w) == _load_progress(use_cloud_storage, TRUE, s3, local_file[w])

\* C1: when the workers' saves follow one another (mirroring on, every S3 call
\* succeeding), then whenever no save is under way a load by any worker
\* returns a record whose completed list holds every key that any worker's
\* save has written: all N keys of N workers are there.
C1_SequentialSavesKeepAll ==
    (\A w \in Workers : ~Saving(w))
        => \A w \in Workers : \A o \in Workers :
              LocalCompleted(o) \subseteq Range(CompletedOf(FinalLoad(w)))

\* both workers have marked a task complete and saved it, the two keys differ
\* and a load returns both
C1_Witness ==
    /\ \A w \in Workers : ~Saving(w) /\ daily_requests[w] >= 1
    /\ \E k1 \in LocalCompleted("w1") : \E k2 \in LocalCompleted("w2") :
          /\ k1 # k2
          /\ progress["w1"]["completed"] = <<k1>>
          /\ progress["w2"]["completed"] = <<k2>>
          /\ {k1, k2} \subseteq Range(CompletedOf(FinalLoad("w1")))

\* C4: with concurrent saves whose fetch and put steps interleave in any order
\* (every S3 call succeeding), a key that is in the remote completed list stays
\* in it in every later state of the remote record.
C4_RemoteNeverLosesKey ==
    [][\A k \in RemoteCompleted :
          s3' # None /\ k \in Range(CompletedOf(s3'[1]))]_vars

\* C8: with mirroring configured, when the S3 read of the load fails, the
\* object not existing included, the loaded record is the content of the local
\* file if that file exists and the fresh empty record otherwise.
C8_LoadFallsBackToLocal ==
    \A w \in Workers :
        (pc[w] = "run" /\ use_cloud_storage
         /\ load_outcome[w] \in {"NoSuchKey", "error"})
        => progress[w] = (IF local_file[w] # None THEN local_file[w][1]
                          ELSE FreshProgress)

\* C9: while a save is at its S3 fetch or its S3 upload the local file already
\* holds the worker's full record, and the upload step, failed or not, returns
\* to the caller of save with the local file still holding that record: no
\* failure is raised.
C9_LocalFirstAndSwallow ==
    /\ [](\A w \in Workers :
             /\ Saving(w) => local_file[w] = Some(progress[w])
             /\ pc[w] # "raised")
    /\ [][\A w \in Workers :
             (pc[w] = "s3_put" /\ pc'[w] \notin {"s3_put", "off"})
                => /\ pc'[w] = ret[w]
                   /\ local_file'[w] = Some(progress'[w])]_vars

\* a save whose upload failed has returned: mirroring is on, nothing was ever
\* uploaded, the process goes on and the local file has its record
C9_Witness ==
    /\ use_cloud_storage
    /\ ~s3_up
    /\ s3 = None
    /\ pc["w1"] = "iter_end"
    /\ local_file["w1"] = Some(progress["w1"])
    /\ progress["w1"]["completed"] # <<>>

\* C10: every key that a save wrote into the local file's completed list is in
\* the completed list of the record the worker works with after every later
\* load and its startup merges.
C10_LocalCompletionsSurvive ==
    \A w \in Workers :
        pc[w] \in {"loop", "process", "work", "iter_end", "s3_get", "s3_put"}
            => LocalCompleted(w) \subseteq Range(CompletedOf(progress[w]))

----------------------------------------------------------------------------
(* The selection specification: _find_available_task on drawn records *)

SelTask0 == TaskDict(<<"2025">>, <<"Mumbai">>, <<"Mumbai City">>, <<"Colaba">>, 0)
SelTask1 == TaskDict(<<"2025">>, <<"Mumbai">>, <<"Mumbai City">>, <<"Colaba">>, 1)
SelTaskC == TaskDict(<<"2024">>, <<"Pune">>, <<"Haveli">>, <<"Hadapsar">>, 3)

\* the moment of the call, and the lease times drawn: 35, 31 and 30 minutes
\* before it
SelNow == 40
SelTimes == {SelNow - 35, SelNow - 31, SelNow - 30}

SelSelf == <<"w2", 1>>
SelOthers == {<<"w1", 1>>, <<"w1", 2>>}

SelLeases ==
    {[last_active |-> t, current_task |-> c] :
        t \in SelTimes, c \in {SelTask0, SelTaskC}}
      \cup {[last_active |-> SelNow - 30, current_task |-> NoCurrent]}

SelVmTasks ==
    {Overlay(others, own, DOMAIN own) :
        others \in Dicts(SelOthers, SelLeases),
        own \in Dicts({SelSelf},
                      {[last_active |-> SelNow - 30, current_task |-> SelTask0]})}

SelectInit ==
    /\ MergeIdle
    /\ RoundIdle
    /\ KeyIdle
    /\ SystemIdle
    /\ sVm = SelSelf
    /\ sNow = SelNow
    /\ sCloud \in BOOLEAN
    /\ sProgress \in
         {[last_run |-> None, completed |-> done, current |-> c, vm_tasks |-> v] :
             done \in SeqsNoDup({KeyOfDict(SelTask0), KeyOfDict(SelTask1),
                                 KeyOfDict(SelTaskC)}, MaxLen),
             c \in {NoCurrent, SelTask0, SelTaskC},
             v \in SelVmTasks}
    /\ sFound = None

\* available_task = self._find_available_task()
SelectCall ==
    /\ sFound = None
    /\ sProgress # EmptyDict
    /\ sFound' = Some(_find_available_task(sProgress, sVm, sCloud, sNow))
    /\ UNCHANGED <<sProgress, sVm, sCloud, sNow, mvars, rvars, kvars, envvars, wvars>>

SelectNext == SelectCall

SpecSelect == SelectInit /\ [][SelectNext]_vars

\* a lease of another vm, not stale at time t, that names key
FreshLeaseOn(prog, self_vm_id, t, key) ==
    \E v \in DOMAIN prog["vm_tasks"] :
        /\ v # self_vm_id
        /\ t - prog["vm_tasks"][v].last_active <= vm_timeout
        /\ KeyOfDict(prog["vm_tasks"][v].current_task) = key

\* C6: when all five fields of current are set, its key is not in completed and
\* no other worker holds a non-stale lease on it, _find_available_task returns
\* exactly that tuple and requests no dropdown list.
C6_ResumePreferred ==
    (/\ sFound # None
     /\ \A field \in DOMAIN sProgress["current"] :
           sProgress["current"][field] # None
     /\ KeyOfDict(sProgress["current"]) \notin Range(sProgress["completed"])
     /\ ~FreshLeaseOn(sProgress, sVm, sNow, KeyOfDict(sProgress["current"])))
    => /\ sFound[1].task = Some(sProgress["current"])
       /\ sFound[1].asked = FALSE

\* current was resumed although the first combination of the discovery order
\* was free as well, and another worker holds a stale lease on current
C6_Witness ==
    /\ sFound # None
    /\ sCloud
    /\ sProgress["current"] = SelTaskC
    /\ sProgress["completed"] = <<KeyOfDict(SelTask1)>>
    /\ \E v \in DOMAIN sProgress["vm_tasks"] :
          v # sVm /\ sProgress["vm_tasks"][v].current_task = SelTaskC
    /\ sFound[1].task = Some(SelTaskC)
    /\ sFound[1].asked = FALSE

\* C5: every tuple _find_available_task returns, on the resume path or the
\* discovery path, has a key that is not in completed and that no non-stale
\* lease of another worker in the record names; a current that is fully set
\* and already completed is not resumed.
C5_ReturnedTaskIsFree ==
    (sFound # None /\ sFound[1].task # None)
    => /\ KeyOfDict(sFound[1].task[1]) \notin Range(sProgress["completed"])
       /\ ~FreshLeaseOn(sProgress, sVm, sNow, KeyOfDict(sFound[1].task[1]))
       /\ (/\ CurrentIsSet(sProgress["current"])
           /\ KeyOfDict(sProgress["current"]) \in Range(sProgress["completed"]))
          => sFound[1].path = "discover"

\* C5 as the code has it: the key is never in completed and a completed
\* current is never resumed; the lease condition holds when remote mirroring
\* is on, the only case in which _is_task_in_progress_by_other_vm looks at
\* leases.
C5_ReturnedTaskIsFreeWhenMirrored ==
    (sFound # None /\ sFound[1].task # None)
    => /\ KeyOfDict(sFound[1].task[1]) \notin Range(sProgress["completed"])
       /\ sCloud => ~FreshLeaseOn(sProgress, sVm, sNow,
                                  KeyOfDict(sFound[1].task[1]))
       /\ (/\ CurrentIsSet(sProgress["current"])
           /\ KeyOfDict(sProgress["current"]) \in Range(sProgress["completed"]))
          => sFound[1].path = "discover"

\* the scenario of the specification: current is 2024_Pune_Haveli_Hadapsar_3
\* and is completed, another worker holds a fresh lease on another task;
\* the first combination of the discovery order is handed out
C5_Witness ==
    /\ sFound # None
    /\ sCloud
    /\ sProgress["current"] = SelTaskC
    /\ sProgress["completed"] = <<KeyOfDict(SelTaskC)>>
    /\ FreshLeaseOn(sProgress, sVm, sNow, KeyOfDict(SelTask0))
    /\ sFound[1] = [task |-> Some(Combos(sProgress)[1]), path |-> "discover",
                    asked |-> TRUE]

\* C7: a lease of another worker whose last_active is more than 30 minutes
\* before now never makes _is_task_in_progress_by_other_vm answer True for its
\* task: when every lease of another worker on a key is that old the answer is
\* False, and a current task that is not completed is then handed out.
C7_StaleLeaseIgnored ==
    sFound # None =>
        \A c \in {SelTask0, SelTask1, SelTaskC} :
            (\A v \in DOMAIN sProgress["vm_tasks"] :
                (v # sVm /\ KeyOfDict(sProgress["vm_tasks"][v].current_task) = KeyOfDict(c))
                    => sNow - sProgress["vm_tasks"][v].last_active > vm_timeout)
            => /\ ~_is_task_in_progress_by_other_vm(sProgress, sVm, sCloud, sNow,
                                                      KeyOfDict(c))
               /\ (sProgress["current"] = c /\ KeyOfDict(c) \notin Range(sProgress["completed"]))
                     => sFound[1].task = Some(c)

\* W1 was last active 35 minutes ago on the task W2 has as current; W2 got it
C7_Witness ==
    /\ sFound # None
    /\ sCloud
    /\ sProgress["current"] = SelTaskC
    /\ DOMAIN sProgress["vm_tasks"] = {<<"w1", 1>>}
    /\ sProgress["vm_tasks"][<<"w1", 1>>] =
          [last_active |-> SelNow - 35, current_task |-> SelTaskC]
    /\ sFound[1].task = Some(SelTaskC)

\* a vm id no process of machine w1 has
OtherVm == <<"w2", 1>>

\* the record a process on another machine loads
OtherView == IF use_cloud_storage /\ s3 # None THEN s3[1] ELSE FreshProgress

ContinuesAt(w, label) ==
    \/ pc'[w] = label
    \/ pc'[w] = "s3_get" /\ ret'[w] = label

\* the steps that end a failed call of process_combination_demo: the first
\* failure below the daily limit resets the session and processes the same
\* task again; the second failure ends the iteration with the task not
\* completed, on no list of its own, free for this worker at once and free for
\* a worker on another machine `delay` minutes later
RetrySteps(delay) ==
    \A w \in Workers :
        (/\ pc[w] = "work"
         /\ pc'[w] \notin {"work", "off"}
         /\ progress'[w]["completed"] = progress[w]["completed"])
        => IF ~retried[w]
           THEN \/ daily_requests[w] >= daily_limit /\ pc'[w] = "done"
                \/ /\ daily_requests[w] < daily_limit
                   /\ daily_requests'[w] = 0
                   /\ retried'[w]
                   /\ task'[w] = task[w]
                   /\ ContinuesAt(w, "process")
           ELSE /\ pc'[w] = "loop"
                /\ attempts'[w] = attempts[w] + 1
                /\ processed_count'[w] = processed_count[w]
                /\ KeyOfDict(task[w][1]) \notin Range(progress'[w]["completed"])
                /\ KeyOfDict(task[w][1]) \notin LocalCompleted(w)'
                /\ KeyOfDict(task[w][1]) \notin RemoteCompleted'
                /\ DOMAIN progress'[w] = DOMAIN FreshProgress
                /\ IsFree(progress'[w], vm_id[w], use_cloud_storage, now,
                          KeyOfDict(task[w][1]))
                /\ IsFree(OtherView', OtherVm, use_cloud_storage, now + delay,
                          KeyOfDict(task[w][1]))

\* C13: after a first failure not caused by the daily limit the session
\* counters are reset and the same task is processed exactly once more; after a
\* second failure the key is not in completed, on no failure list, and
\* selectable by later iterations and, at that moment, by other workers.
C13_RetryOnceThenSelectable == [][RetrySteps(0)]_vars

\* C13 as the code has it: the same, except that a worker on another machine
\* (remote mirroring on) can select the abandoned task only once the lease
\* this worker still holds on it is stale, more than vm_timeout minutes later.
C13_RetryOnceThenFreeAfterLease == [][RetrySteps(vm_timeout + 1)]_vars

\* the second attempt has failed: the iteration is over, the task is not
\* completed, and the remote record carries this process's fresh lease on it
C13_Witness ==
    /\ use_cloud_storage
    /\ pc["w1"] = "loop"
    /\ retried["w1"]
    /\ attempts["w1"] = 1
    /\ processed_count["w1"] = 0
    /\ task["w1"] # None
    /\ KeyOfDict(task["w1"][1]) \notin Range(progress["w1"]["completed"])
    /\ s3 # None
    /\ FreshLeaseOn(s3[1], OtherVm, now, KeyOfDict(task["w1"][1]))
    /\ vm_id["w1"] \in DOMAIN s3[1]["vm_tasks"]
    /\ s3[1]["vm_tasks"][vm_id["w1"]].current_task = task["w1"][1]

----------------------------------------------------------------------------
(* Whole lives of one process after another *)

NextLife == \E w \in Solo : WorkerStep(w)

\* one machine without a browser, nothing fails: each process runs its loop
\* to the end, and the next one is started after it
SpecLife == Init /\ [][NextLife]_vars

OwnLease(w) ==
    IF Has(progress[w], "vm_tasks") /\ vm_id[w] \in DOMAIN progress[w]["vm_tasks"]
    THEN Some(progress[w]["vm_tasks"][vm_id[w]].current_task)
    ELSE None

\* C14: once daily_requests has reached daily_limit in a process, no step of
\* that process gives current a new value, makes its lease name a new task or
\* appends a key to completed, in memory or in the local file, and the counter
\* stays at the limit until the process ends.
C14_NoClaimAfterLimit ==
    [][\A w \in Workers :
          (daily_requests[w] >= daily_limit /\ pc'[w] # "run")
          => /\ daily_requests'[w] >= daily_limit
             /\ task'[w] = task[w]
             /\ progress'[w]["current"] = progress[w]["current"]
             /\ OwnLease(w)' = OwnLease(w)
             /\ progress'[w]["completed"] = progress[w]["completed"]
             /\ LocalCompleted(w)' = LocalCompleted(w)]_vars

\* the process has completed daily_limit tasks and has ended
C14_Witness ==
    /\ daily_requests["w1"] = daily_limit
    /\ pc["w1"] = "done"
    /\ Len(progress["w1"]["completed"]) >= daily_limit

\* C15: when the driver cannot be constructed, the run appends no task key to
\* completed: whatever a step adds to the process's completed list was in the
\* remote record already.
C15_NoCompletionWithoutDriver ==
    [][\A w \in Workers :
          (browser = "none" /\ pc[w] # "off" /\ pc'[w] \notin {"off", "run"})
          => Range(CompletedOf(progress'[w]))
                \subseteq (Range(CompletedOf(progress[w])) \cup RemoteCompleted)]_vars

\* C16: when _find_available_task reports that no task is available, the
\* iteration claims no task and starts no processing: the loop goes on to its
\* end, it raises nothing.
C16_NoTaskNoClaim ==
    [][\A w \in Workers :
          (/\ pc[w] = "loop"
           /\ <<pc'[w], attempts'[w]>> # <<pc[w], attempts[w]>>
           /\ pc'[w] # "off"
           /\ ~LoopEnds(processed_count[w], attempts[w], daily_requests[w])
           /\ _find_available_task(progress[w], vm_id[w], use_cloud_storage,
                                   now).task = None)
          => /\ pc'[w] \in {"loop", "done"}
             /\ task'[w] = task[w]
             /\ local_file'[w] = local_file[w]]_vars

\* the record _save_progress_to_s3 fetches when the read succeeds
Fetched == _load_progress_from_s3(TRUE, s3).value

\* C17: when the fetch before the write succeeds, the record save uploads has
\* as completed the fetched list in its order followed by the worker's keys
\* that were not in it, in the worker's order and each once; its lease entry
\* of this worker is the worker's current one; every other lease entry is the
\* fetched one; and put_object writes exactly this record.
C17_MergedRecordWritten ==
    [][\A w \in Workers :
          /\ (pc[w] = "s3_get" /\ pc'[w] = "s3_put" /\ s3_up)
             => LET m == merged_progress'[w][1]
                    old == Fetched["completed"]
                    own == progress[w]["completed"]
                    tail == SubSeq(m["completed"], Len(old) + 1,
                                   Len(m["completed"]))
                IN  /\ SubSeq(m["completed"], 1, Len(old)) = old
                    /\ NoDup(tail)
                    /\ Range(tail) = Range(own) \ Range(old)
                    /\ \A i, j \in 1..Len(own) :
                          (i < j /\ own[i] \in Range(tail) /\ own[j] \in Range(tail))
                          => \E a, b \in 1..Len(tail) :
                                a < b /\ tail[a] = own[i] /\ tail[b] = own[j]
                    /\ m["vm_tasks"][vm_id[w]] = progress[w]["vm_tasks"][vm_id[w]]
                    /\ DOMAIN m["vm_tasks"] =
                          DOMAIN Fetched["vm_tasks"] \cup {vm_id[w]}
                    /\ \A v \in DOMAIN Fetched["vm_tasks"] \ {vm_id[w]} :
                          m["vm_tasks"][v] = Fetched["vm_tasks"][v]
          /\ (pc[w] = "s3_put" /\ pc'[w] # "s3_put" /\ s3_up)
             => s3' = merged_progress[w]]_vars

\* W1 is about to upload: the remote list held W2's key, W1's own list held
\* two keys of which one is new; the merged list is the remote's followed by
\* the new one, and W2's lease is carried over
C17_Witness ==
    /\ pc["w1"] = "s3_put"
    /\ s3 # None
    /\ Len(s3[1]["completed"]) >= 1
    /\ Len(progress["w1"]["completed"]) >= 1
    /\ progress["w1"]["completed"] # merged_progress["w1"][1]["completed"]
    /\ s3[1]["completed"] # merged_progress["w1"][1]["completed"]
    /\ vm_id["w2"] \in DOMAIN merged_progress["w1"][1]["vm_tasks"]

NextOutage ==
    \/ \E w \in Workers :
          /\ \A o \in Workers \ {w} : ~Saving(o)
          /\ Followed(w)
          /\ s3_up \/ pc[w] = "s3_get"
          /\ WorkerStep(w)
    \/ (\E w \in Workers : pc[w] = "s3_get") /\ Outage
    \/ Recover

\* as SpecSeq at one instant of the clock, and S3 can be away for the fetch of
\* a save: that get_object fails, and S3 is back for the put_object after it
SpecOutage == InitCloud /\ [][NextOutage]_vars

LeasesOf(record) ==
    IF record = None \/ ~Has(record[1], "vm_tasks") THEN {}
    ELSE DOMAIN record[1]["vm_tasks"]

\* C18: one save, whatever its fetch and its put did, leaves in the remote
\* record every key its completed list held before the save and the lease
\* entry of every other worker.
C18_SaveRemovesNothing ==
    [][\A w \in Workers :
          (pc[w] = "s3_put" /\ pc'[w] # "s3_put" /\ pc'[w] # "off")
          => /\ RemoteCompleted \subseteq RemoteCompleted'
             /\ LeasesOf(s3) \ {vm_id[w]} \subseteq LeasesOf(s3')]_vars

\* the record on worker w's disk holds the claim of the task w has in hand
ClaimPersisted(w) ==
    /\ local_file[w] # None
    /\ local_file[w][1]["current"] = task[w][1]
    /\ Has(local_file[w][1], "vm_tasks")
    /\ vm_id[w] \in DOMAIN local_file[w][1]["vm_tasks"]
    /\ local_file[w][1]["vm_tasks"][vm_id[w]]["current_task"] = task[w][1]
    /\ local_file[w][1]["vm_tasks"][vm_id[w]]["last_active"] <= now

\* C19: while a worker processes a task, a save has already written current
\* equal to that task and this worker's lease naming it; the save of the claim
\* stamps the lease with the time of the claim; and, apart from the keys a
\* starting process loads and merges, a key enters completed only from the
\* processing of the task in hand, so after that save.
C19_ClaimSavedBeforeProcessing ==
    /\ [](\A w \in Workers : pc[w] = "work" => ClaimPersisted(w))
    /\ [][\A w \in Workers :
             /\ (pc[w] = "loop" /\ task'[w] # task[w] /\ pc'[w] # "off")
                => /\ ClaimPersisted(w)'
                   /\ local_file'[w][1]["vm_tasks"][vm_id[w]]["last_active"] = now
             /\ \A k \in Range(CompletedOf(progress'[w])) \ Range(CompletedOf(progress[w])) :
                   pc[w] \in {"off", "done", "run", "demo"}
                   \/ /\ pc[w] = "work"
                      /\ k = KeyOfDict(task[w][1])
                      /\ ClaimPersisted(w)]_vars

\* the worker is processing a task with mirroring on, and both its file and
\* the remote record hold its lease naming the task
C19_Witness ==
    /\ pc["w1"] = "work"
    /\ use_cloud_storage
    /\ ClaimPersisted("w1")
    /\ s3 # None
    /\ vm_id["w1"] \in LeasesOf(s3)
    /\ s3[1]["vm_tasks"][vm_id["w1"]]["current_task"] = task["w1"][1]
    /\ Len(progress["w1"]["completed"]) >= 1

\* C20: with mirroring on, when a worker selects a task in an iteration of
\* its loop, the remote record of that moment holds no lease of another
\* worker naming the task that is younger than the lease timeout.
C20_SelectedTaskNotLeasedRemotely ==
    [][\A w \in Workers :
          (/\ pc[w] = "loop"
           /\ task'[w] # None
           /\ pc'[w] \in {"s3_get", "process"}
           /\ use_cloud_storage
           /\ s3 # None)
          => ~FreshLeaseOn(s3[1], vm_id[w], now, KeyOfDict(task'[w][1]))]_vars

\* the leases of other vms in worker w's record that are at most vm_timeout old
FreshLeases(w) ==
    IF progress[w] = EmptyDict \/ ~Has(progress[w], "vm_tasks") THEN {}
    ELSE {v \in DOMAIN progress[w]["vm_tasks"] \ {vm_id[w]} :
             now - progress[w]["vm_tasks"][v]["last_active"] <= vm_timeout}

\* C21: with mirroring on, for every lease of another worker in the record
\* that is at most 30 minutes old, _is_task_in_progress_by_other_vm answers
\* True for the key of its task and _find_available_task does not return that
\* task, by resume or by discovery; and no step of the loop claims a task
\* that such a lease names.
C21_FreshLeaseBlocks ==
    /\ [](\A w \in Workers : \A v \in FreshLeases(w) :
             LET key == KeyOfDict(progress[w]["vm_tasks"][v]["current_task"])
                 f == _find_available_task(progress[w], vm_id[w],
                                           use_cloud_storage, now)
             IN  use_cloud_storage
                 => /\ _is_task_in_progress_by_other_vm(
                           progress[w], vm_id[w], use_cloud_storage, now, key)
                    /\ f.task # None => KeyOfDict(f.task[1]) # key)
    /\ [][\A w \in Workers :
             (pc[w] = "loop" /\ task'[w] # None /\ pc'[w] \in {"s3_get", "process"})
             => \A v \in FreshLeases(w) :
                   KeyOfDict(progress[w]["vm_tasks"][v]["current_task"])
                      # KeyOfDict(task'[w][1])]_vars

\* W2 loaded W1's lease on the first task of the discovery order, the lease
\* is exactly 30 minutes old, the task is not completed, and W2 is working on
\* another task
C21_Witness ==
    /\ pc["w2"] = "work"
    /\ \E v \in FreshLeases("w2") :
          /\ progress["w2"]["vm_tasks"][v]["current_task"] = SelTask0
          /\ now - progress["w2"]["vm_tasks"][v]["last_active"] = vm_timeout
    /\ KeyOfDict(SelTask0) \notin Range(progress["w2"]["completed"])
    /\ task["w2"] # None
    /\ task["w2"][1] # SelTask0

\* C22: the record persisted by the save that follows a successful
\* processing has a current that does not name the task just completed.
C22_CurrentLeavesCompletedTask ==
    [][\A w \in Workers :
          (/\ pc[w] = "work"
           /\ pc'[w] # "off"
           /\ Len(CompletedOf(progress'[w])) > Len(CompletedOf(progress[w])))
          => local_file'[w][1]["current"] # task[w][1]]_vars

AllOrNone(c) ==
    \/ \A field \in DOMAIN c : c[field] = None
    \/ \A field \in DOMAIN c : c[field] # None

\* C23: every record in a local file, in the remote object or about to be
\* uploaded has the five fields of current all unset or all set.
C23_CurrentAllOrNone ==
    /\ \A w \in Workers :
          /\ local_file[w] # None => AllOrNone(local_file[w][1]["current"])
          /\ merged_progress[w] # None => AllOrNone(merged_progress[w][1]["current"])
    /\ s3 # None => AllOrNone(s3[1]["current"])

\* _find_available_task found nothing, a random combination was drawn
\* through the partly set current and claimed, and the claim is on disk with
\* all five fields set
C23_Witness ==
    /\ pc["w1"] = "process"
    /\ found["w1"] # None
    /\ found["w1"][1].path = "none"
    /\ task["w1"] # None
    /\ local_file["w1"] # None
    /\ local_file["w1"][1]["current"] = task["w1"][1]
    /\ \A field \in DOMAIN task["w1"][1] : task["w1"][1][field] # None

\* C24: merge_progress_files leaves its arguments as they were: after the
\* call the remote record, its completed list and its lease table included,
\* equals the record handed in (the local record is only read, lines 107-121).
C24_MergeLeavesArguments ==
    mOut # None => mRemoteAfter[1] = mRemote

\* C25: with a non-empty remote, the lease table of the merged record has
\* exactly the worker keys of local and remote together; a key of local
\* carries local's entry, a key of remote alone carries remote's entry.
C25_LeaseTableUnion ==
    (mOut # None /\ mRemote # EmptyDict)
    => LET L == IF Has(mLocal, "vm_tasks") THEN mLocal["vm_tasks"] ELSE EmptyDict
           R == IF Has(mRemote, "vm_tasks") THEN mRemote["vm_tasks"] ELSE EmptyDict
           M == IF Has(mOut[1], "vm_tasks") THEN mOut[1]["vm_tasks"] ELSE EmptyDict
       IN  /\ DOMAIN M = DOMAIN L \cup DOMAIN R
           /\ \A v \in DOMAIN L : M[v] = L[v]
           /\ \A v \in DOMAIN R \ DOMAIN L : M[v] = R[v]

\* w1 is leased on both sides with different entries and w2 in remote only:
\* the merged table has local's entry for w1 and remote's for w2
C25_Witness ==
    /\ mOut # None
    /\ Has(mLocal, "vm_tasks") /\ Has(mRemote, "vm_tasks")
    /\ DOMAIN mLocal["vm_tasks"] = {<<"w1", 1>>}
    /\ DOMAIN mRemote["vm_tasks"] = {<<"w1", 1>>, <<"w2", 1>>}
    /\ mLocal["vm_tasks"][<<"w1", 1>>] # mRemote["vm_tasks"][<<"w1", 1>>]
    /\ mOut[1]["vm_tasks"][<<"w1", 1>>] = mLocal["vm_tasks"][<<"w1", 1>>]
    /\ mOut[1]["vm_tasks"][<<"w2", 1>>] = mRemote["vm_tasks"][<<"w2", 1>>]

\* C27: no completed list holds a key twice: not a worker's in-memory list,
\* not its local file, not the record it is about to upload, not the remote.
C27_NoKeyTwice ==
    /\ \A w \in Workers :
          /\ progress[w] # EmptyDict => NoDup(CompletedOf(progress[w]))
          /\ local_file[w] # None => NoDup(CompletedOf(local_file[w][1]))
          /\ merged_progress[w] # None => NoDup(CompletedOf(merged_progress[w][1]))
    /\ s3 # None => NoDup(CompletedOf(s3[1]))

\* both workers claimed, processed and completed the same task, and both
\* saves have merged it into the remote list
C27_Witness ==
    /\ pc["w1"] = "iter_end"
    /\ pc["w2"] = "iter_end"
    /\ task["w1"] # None
    /\ task["w1"] = task["w2"]
    /\ KeyOfDict(task["w1"][1]) \in Range(CompletedOf(progress["w1"]))
    /\ KeyOfDict(task["w1"][1]) \in Range(CompletedOf(progress["w2"]))
    /\ KeyOfDict(task["w1"][1]) \in RemoteCompleted

\* C30: with mirroring on, the first selection of a process started again on
\* a machine returns the task the machine's previous process had in hand,
\* when that process saved it, locally and remotely, at most 30 minutes ago
\* under its own vm_id and the task is completed neither locally nor
\* remotely (no other machine runs, so no other machine claims it).
C30_RestartResumesOwnTask ==
    [][\A w \in Solo :
          (/\ use_cloud_storage
           /\ pc[w] = "loop"
           /\ found'[w] # found[w]
           /\ pc'[w] # "off"
           /\ attempts[w] = 0
           /\ local_file[w] # None
           /\ s3 # None
           /\ LET old == local_file[w][1]
              IN  /\ \A field \in DOMAIN old["current"] : old["current"][field] # None
                  /\ KeyOfDict(old["current"]) \notin Range(old["completed"])
                  /\ KeyOfDict(old["current"]) \notin RemoteCompleted
                  /\ vm_id[w] \notin DOMAIN old["vm_tasks"]
                  /\ \E v \in DOMAIN old["vm_tasks"] \cap DOMAIN s3[1]["vm_tasks"] :
                        /\ v[1] = w
                        /\ old["vm_tasks"][v]["current_task"] = old["current"]
                        /\ s3[1]["vm_tasks"][v] = old["vm_tasks"][v]
                        /\ now - old["vm_tasks"][v]["last_active"] <= vm_timeout)
          => found'[w][1].task = Some(local_file[w][1]["current"])]_vars

----------------------------------------------------------------------------
(* The browser loop of run *)

run_num_combinations == 10
run_max_attempts == 20

\* the tuples the page's four dropdowns and random.randint(0, 9) can give; the
\* page's lists are taken to be the lists _get_dropdown_options falls back to
PageTuples == _auto_select_from_dropdowns(FreshProgress)

\* a call into the browser: it succeeds, or may fail when the browser is flaky
CallOutcomes == IF browser = "flaky" THEN BOOLEAN ELSE {TRUE}

\* run, lines 2160-2383: the loop test, the daily limit, the captcha, the
\* selection, the form, the claim and the local write of its save
BrowserLoopStep(w) ==
    /\ pc[w] = "bloop"
    /\ IF \/ ~(/\ processed_count[w] < run_num_combinations
               /\ attempts[w] < run_max_attempts)
          \/ daily_requests[w] >= daily_limit
       THEN /\ pc' = Upd(pc, w, "done")
            /\ UNCHANGED <<progress, local_file, ret, attempts, found, task, retried>>
       ELSE \E page_ok \in CallOutcomes :
              IF ~page_ok
              THEN /\ attempts' = Upd(attempts, w, NextAttempt(attempts[w]))
                   /\ UNCHANGED <<pc, progress, local_file, ret, found, task, retried>>
              ELSE LET f == _find_available_task(progress[w], vm_id[w],
                                                 use_cloud_storage, now)
                   IN  /\ found' = Upd(found, w, Some(f))
                       /\ \E t \in (IF f.task # None THEN {f.task[1]}
                                    ELSE PageTuples) :
                             IF /\ f.task = None
                                /\ \/ KeyOfDict(t) \in Range(progress[w]["completed"])
                                   \/ _is_task_in_progress_by_other_vm(
                                          progress[w], vm_id[w], use_cloud_storage,
                                          now, KeyOfDict(t))
                             THEN /\ attempts' = Upd(attempts, w, NextAttempt(attempts[w]))
                                  /\ UNCHANGED <<pc, progress, local_file, ret, task,
                                                 retried>>
                             ELSE /\ task' = Upd(task, w, Some(t))
                                  /\ retried' = Upd(retried, w, FALSE)
                                  /\ BeginSave(w, [progress[w] EXCEPT !["current"] = t],
                                               "bprocess")
                                  /\ UNCHANGED attempts
    /\ UNCHANGED <<mvars, svars, rvars, kvars, envvars, starts, vm_id, daily_requests,
                   processed_count, merged_progress, load_outcome>>

\* process_combination with a driver, lines 1376-1404: False at the daily
\* limit or when another vm holds the task, else current, the lease, the save,
\* and the end of the function body: None is returned
BrowserProcess(w) ==
    /\ pc[w] = "bprocess"
    /\ IF \/ daily_requests[w] >= daily_limit
          \/ _is_task_in_progress_by_other_vm(progress[w], vm_id[w],
                                              use_cloud_storage, now,
                                              KeyOfDict(task[w][1]))
       THEN /\ pc' = Upd(pc, w, "bafter")
            /\ UNCHANGED <<progress, local_file, ret>>
       ELSE BeginSave(w, [progress[w] EXCEPT !["current"] = task[w][1]], "bafter")
    /\ UNCHANGED <<mvars, svars, rvars, kvars, envvars, starts, vm_id, daily_requests,
                   processed_count, attempts, found, task, retried,
                   merged_progress, load_outcome>>

\* run, lines 2385-2403: success is False or None, so `if not success` is
\* taken and `if success` is not
BrowserAfter(w) ==
    /\ pc[w] = "bafter"
    /\ IF retried[w]
       THEN /\ attempts' = Upd(attempts, w, NextAttempt(attempts[w]))
            /\ pc' = Upd(pc, w, "bloop")
            /\ UNCHANGED <<progress, local_file, ret, daily_requests, retried>>
       ELSE IF daily_requests[w] >= daily_limit
       THEN /\ pc' = Upd(pc, w, "done")
            /\ UNCHANGED <<progress, local_file, ret, daily_requests, attempts,
                           retried>>
       ELSE /\ daily_requests' = Upd(daily_requests, w, 0)
            /\ retried' = Upd(retried, w, TRUE)
            /\ BeginSave(w, [progress[w] EXCEPT !["last_run"] = Some(now)],
                         "bprocess")
            /\ UNCHANGED attempts
    /\ UNCHANGED <<mvars, svars, rvars, kvars, envvars, starts, vm_id, processed_count,
                   found, task, merged_progress, load_outcome>>

\* run, lines 2408-2411: an exception in the loop is caught and run_demo_mode
\* is entered
BrowserAbort(w) ==
    /\ browser = "flaky"
    /\ pc[w] = "bloop"
    /\ pc' = Upd(pc, w, "demo")
    /\ UNCHANGED <<mvars, svars, rvars, kvars, envvars, local_file, ret, starts, vm_id,
                   progress, daily_requests, processed_count, attempts, found,
                   task, retried, merged_progress, load_outcome>>

InitBrowser ==
    /\ MergeIdle
    /\ SelectIdle
    /\ RoundIdle
    /\ KeyIdle
    /\ WorkersOff
    /\ browser = "ok"
    /\ failing_task = None
    /\ use_cloud_storage \in BOOLEAN
    /\ s3 = None
    /\ s3_up = TRUE
    /\ now = 0

NextBrowser ==
    \E w \in Solo :
        \/ Start(w)
        \/ RunMerge(w)
        \/ BrowserLoopStep(w)
        \/ BrowserProcess(w)
        \/ BrowserAfter(w)
        \/ S3Get(w)
        \/ S3Put(w)

\* one machine with a working browser: the driver is constructed and every
\* call succeeds
SpecBrowser == InitBrowser /\ [][NextBrowser]_vars

InitFlaky ==
    /\ MergeIdle
    /\ SelectIdle
    /\ RoundIdle
    /\ KeyIdle
    /\ WorkersOff
    /\ browser = "flaky"
    /\ failing_task = None
    /\ use_cloud_storage \in BOOLEAN
    /\ s3 = None
    /\ s3_up = TRUE
    /\ now = 0

InBrowserLoop(w) ==
    \/ pc[w] \in {"off", "done", "run", "bloop", "bprocess", "bafter", "demo"}
    \/ ret[w] \in {"bprocess", "bafter"}

NextFlaky ==
    \E w \in Solo :
        /\ InBrowserLoop(w) \/ Followed(w)
        /\ \/ WorkerStep(w)
           \/ BrowserLoopStep(w)
           \/ BrowserProcess(w)
           \/ BrowserAfter(w)
           \/ BrowserAbort(w)

\* one machine whose browser starts but whose calls may fail: the loop may
\* abort into run_demo_mode at any iteration
SpecFlaky == InitFlaky /\ [][NextFlaky]_vars

\* C12: with a working driver and every collaborator call succeeding, a task
\* the run has claimed and processed is, when the run ends, in completed of
\* the persisted record, and the loop has counted it as processed.
C12_BrowserCompletes ==
    \A w \in Workers :
        (browser = "ok" /\ pc[w] = "done" /\ task[w] # None)
        => /\ KeyOfDict(task[w][1]) \in LocalCompleted(w)
           /\ processed_count[w] >= 1

----------------------------------------------------------------------------
(* The round-trip specification: _save_progress then _load_progress, remote *)
(* mirroring off, on drawn records                                          *)

RoundRecords ==
    {[last_run |-> None, completed |-> done, current |-> c, vm_tasks |-> v] :
        done \in SeqsNoDup({KeyOfDict(SelTask0), KeyOfDict(SelTask1)}, MaxLen),
        c \in {NoCurrent, SelTask0, SelTaskC},
        v \in SelVmTasks}

RoundInit ==
    /\ MergeIdle
    /\ KeyIdle
    /\ SelectIdle
    /\ SystemIdle
    /\ rRecord \in RoundRecords
    /\ rVm = SelSelf
    /\ rNow \in {SelNow - 30, SelNow}
    /\ rFile = None
    /\ rLoaded = None

\* self._save_progress(), use_cloud_storage off
RoundSave ==
    /\ rFile = None
    /\ rRecord # EmptyDict
    /\ rFile' = LocalWrite(rFile, WithLease(rRecord, rVm, rNow))
    /\ UNCHANGED <<rRecord, rVm, rNow, rLoaded, mvars, svars, kvars, envvars, wvars>>

\* self._load_progress(), use_cloud_storage off
RoundLoad ==
    /\ rFile # None
    /\ rLoaded = None
    /\ rLoaded' = Some(_load_progress(FALSE, TRUE, None, rFile))
    /\ UNCHANGED <<rRecord, rVm, rNow, rFile, mvars, svars, kvars, envvars, wvars>>

RoundNext == RoundSave \/ RoundLoad

SpecRound == RoundInit /\ [][RoundNext]_vars

\* C11: with remote mirroring off, the record load returns after save(r) is r,
\* the record as it was handed to save.
C11_RoundTrip ==
    rLoaded # None => rLoaded[1] = rRecord

----------------------------------------------------------------------------
(* Task keys compared: the completed test and the lease test on two tuples *)

\* option texts: _get_dropdown_options returns the demo lists without a
\* driver and, with one, whatever non-blank text the page's <option>s hold
\* that does not start with "Select" (lines 976-1001); 'Pune_City' and
\* 'City_Haveli' stand for page texts with an underscore
KeyYears == {DemoYears[1], DemoYears[2]}
KeyDistricts == {<<"Pune">>, <<"Pune", "_", "City">>}
KeyTalukas == {<<"Haveli">>, <<"City", "_", "Haveli">>}
KeyVillages == {<<"Hadapsar">>, <<"Wagholi">>}

KeyTasks ==
    {TaskDict(y, d, t, v, n) :
        y \in KeyYears, d \in KeyDistricts, t \in KeyTalukas, v \in KeyVillages,
        n \in 0..(DocCount - 1)}

KeyInit ==
    /\ MergeIdle
    /\ SelectIdle
    /\ RoundIdle
    /\ SystemIdle
    /\ kTaskA \in KeyTasks
    /\ kTaskB \in KeyTasks
    /\ kOut = None

\* task A is completed, and leased by another vm just now; task B is tested
\* as _find_available_task tests a candidate (lines 1480-1482, 1501-1503)
KeyCompare ==
    /\ kOut = None
    /\ kTaskA # NoCurrent
    /\ kOut' = Some(
          [in_completed |-> KeyOfDict(kTaskB) \in Range(<<KeyOfDict(kTaskA)>>),
           leased |-> _is_task_in_progress_by_other_vm(
                          [FreshProgress EXCEPT
                              !["vm_tasks"] = Put(EmptyDict, <<"w2", 1>>,
                                                  Lease(0, kTaskA))],
                          <<"w1", 1>>, TRUE, 0, KeyOfDict(kTaskB))])
    /\ UNCHANGED <<kTaskA, kTaskB, mvars, svars, rvars, envvars, wvars>>

KeyNext == KeyCompare

SpecKey == KeyInit /\ [][KeyNext]_vars

HasUnderscore(t) ==
    \E field \in {"year", "district", "taluka", "village"} :
        "_" \in Range(t[field][1])

\* C26: two tuples have the same key exactly when their five components are
\* equal: B passes for completed, and for leased, exactly when B is A.
C26_KeyInjective ==
    kOut # None =>
        /\ kOut[1].in_completed <=> kTaskA = kTaskB
        /\ kOut[1].leased <=> kTaskA = kTaskB

\* C26 as the code has it: the key is injective on tuples none of whose
\* texts holds an underscore, which is the case of every option of the demo
\* lists.
C26_KeyInjectiveWithoutUnderscore ==
    /\ \A list \in {DemoYears, DemoDistricts, DemoTalukasAll, DemoVillagesAll} :
          \A i \in 1..Len(list) : "_" \notin Range(list[i])
    /\ (kOut # None /\ ~HasUnderscore(kTaskA) /\ ~HasUnderscore(kTaskB))
       => /\ kOut[1].in_completed <=> kTaskA = kTaskB
          /\ kOut[1].leased <=> kTaskA = kTaskB

\* two tuples of demo options that differ in the document number only were
\* compared and told apart
C26_Witness ==
    /\ kOut # None
    /\ ~HasUnderscore(kTaskA) /\ ~HasUnderscore(kTaskB)
    /\ kTaskA # kTaskB
    /\ [kTaskA EXCEPT !.doc_number = None] = [kTaskB EXCEPT !.doc_number = None]
    /\ ~kOut[1].in_completed
    /\ ~kOut[1].leased

----------------------------------------------------------------------------
(* Whole runs, with or without a browser, every step taken in the end *)

InitRun ==
    /\ MergeIdle
    /\ SelectIdle
    /\ RoundIdle
    /\ KeyIdle
    /\ WorkersOff
    /\ browser \in {"none", "ok", "flaky"}
    /\ failing_task = None
    /\ use_cloud_storage \in BOOLEAN
    /\ s3 = None
    /\ s3_up = TRUE
    /\ now = 0

NextRun ==
    \E w \in Solo :
        \/ WorkerStep(w)
        \/ BrowserLoopStep(w)
        \/ BrowserProcess(w)
        \/ BrowserAfter(w)
        \/ BrowserAbort(w)

\* one machine, with no browser, a working one or a flaky one; nothing kills
\* the process and S3 answers
SpecRun == InitRun /\ [][NextRun]_vars

\* the loop a process is in
LoopOf(w) ==
    IF \/ pc[w] \in {"loop", "process", "work", "iter_end"}
       \/ ret[w] \in {"process", "work", "iter_end"}
    THEN "demo"
    ELSE IF \/ pc[w] \in {"bloop", "bprocess", "bafter"}
            \/ ret[w] \in {"bprocess", "bafter"}
    THEN "browser"
    ELSE "none"

\* where a process is within one iteration, counted down: the claim and its
\* save, the first call of process_combination(_demo) and its save, the
\* retry after _reset_session, the completion save, the end of the iteration
StepsLeftInIteration(w) ==
    LET at == IF pc[w] \in {"s3_get", "s3_put"} THEN ret[w] ELSE pc[w]
        saving == CASE pc[w] = "s3_get" -> 2
                    [] pc[w] = "s3_put" -> 1
                    [] OTHER -> 0
        place == CASE at \in {"loop", "bloop"} -> 20
                   [] at \in {"process", "bprocess"} -> IF retried[w] THEN 10 ELSE 16
                   [] at \in {"work", "bafter"} -> IF retried[w] THEN 7 ELSE 13
                   [] at = "iter_end" -> 4
                   [] OTHER -> 0
    IN  place + saving

\* a bound on the steps a process still takes before its run has ended: the
\* iterations its loop has left, times the steps of an iteration, and for
\* the browser loop the whole demo loop it may fall back to
StepsLeft(w) ==
    LET demo_top == (max_attempts * 23) + 23
    IN  CASE pc[w] \in {"off", "done"} -> 0
          [] pc[w] = "run" -> demo_top + (run_max_attempts * 23) + 24
          [] pc[w] = "demo" -> demo_top
          [] LoopOf(w) = "demo" ->
                ((max_attempts - attempts[w]) * 23) + StepsLeftInIteration(w)
          [] OTHER ->
                demo_top + ((run_max_attempts - attempts[w]) * 23)
                    + StepsLeftInIteration(w)

\* C28: every run ends: each step of a running process lowers StepsLeft, which
\* is never negative; a process back at the top of its loop has counted one
\* more attempt; the demo loop never counts more than 10 attempts nor more
\* than 5 processed tasks, the browser loop never more than 20 and 10.
C28_RunTerminates ==
    /\ [](\A w \in Workers :
             /\ LoopOf(w) = "demo"
                => /\ attempts[w] <= max_attempts
                   /\ processed_count[w] <= num_combinations
             /\ LoopOf(w) = "browser"
                => /\ attempts[w] <= run_max_attempts
                   /\ processed_count[w] <= run_num_combinations
             /\ pc[w] = "done"
                => /\ attempts[w] <= run_max_attempts
                   /\ processed_count[w] <= run_num_combinations
                   /\ browser = "none"
                      => /\ attempts[w] <= max_attempts
                         /\ processed_count[w] <= num_combinations
             /\ processed_count[w] <= attempts[w]
             /\ StepsLeft(w) >= 0)
    /\ [][\A w \in Workers :
             /\ (/\ pc'[w] \in {"loop", "bloop"}
                 /\ pc[w] \notin {"run", "demo"}
                 /\ <<pc'[w], attempts'[w]>> # <<pc[w], attempts[w]>>)
                => attempts'[w] = attempts[w] + 1
             /\ pc[w] \notin {"off", "done"} => StepsLeft(w)' < StepsLeft(w)]_vars

\* a demo run has ended after 10 attempts with fewer than 5 tasks processed
C28_Witness ==
    /\ browser = "none"
    /\ pc["w1"] = "done"
    /\ attempts["w1"] = max_attempts
    /\ processed_count["w1"] < num_combinations
    /\ processed_count["w1"] >= 1

----------------------------------------------------------------------------
(* Runs in which one task fails on every attempt *)

\* the first two combinations of the discovery order
StubbornTasks == {Combos(FreshProgress)[1], Combos(FreshProgress)[2]}

InitStubborn ==
    /\ MergeIdle
    /\ SelectIdle
    /\ RoundIdle
    /\ KeyIdle
    /\ WorkersOff
    /\ browser = "none"
    /\ failing_task \in {Some(t) : t \in StubbornTasks}
    /\ use_cloud_storage \in BOOLEAN
    /\ s3 = None
    /\ s3_up = TRUE
    /\ now = 0

\* as SpecLife, for the runs in which both simulated captchas fail whenever
\* the task is failing_task and succeed on every other task
SpecStubborn == InitStubborn /\ [][NextLife]_vars

\* C29: in a run where one task fails on every attempt and every other task
\* succeeds, the process has completed at least one task when its loop ends.
C29_CompletesAnother ==
    \A w \in Solo : pc[w] = "done" => processed_count[w] >= 1

====
